---- MODULE Spec2Model ----
(***************************************************************************)
(* Model of cli/azd/pkg/commands/builder.go: the command produced by Build *)
(* and the run-handler (RunE) it installs.  One behaviour is the life of   *)
(* one built command: Build has run (Init), and the command is invoked a   *)
(* bounded number of times.  Every call the run-handler makes to a         *)
(* collaborator (AzdContext, credential, formatter resolver, tracer,       *)
(* action) is one step; the collaborator's answer is drawn with \E.        *)
(*                                                                         *)
(* Values.  An error is a sequence of strings: Nil (<<>>) is Go's nil, a   *)
(* one-element sequence is an error value made by a collaborator, and      *)
(* fmt.Errorf("...: %w", e) puts its format string in front of e.  A       *)
(* writer is a sequence of strings too: the wraps applied, outermost       *)
(* first, ending in the base stream.                                       *)
(***************************************************************************)
EXTENDS Naturals, Sequences, FiniteSets

\* The number of times the built command is invoked in one behaviour.
MaxInvocations == 2

--------------------------------------------------------------------------
(* Values of the collaborators *)

Nil == <<>>

\* Error values the collaborators can produce.
AzdContextErrs == {<<"no project exists">>, <<"getwd failed">>}
CredentialErrs == {<<"az cli not found">>}
FormatterErrs == {<<"unsupported format">>}
ActionErrs == {<<"deploy failed">>, <<"context canceled">>}

\* What output.GetCommandFormatter can hand back besides an error.
Formatters == {"nil", "json"}

\* The chains of Use strings, root first, of the commands that can be built.
\* A Use string is the sequence of its words: the name, then the usage text.
CommandChains ==
    { << <<"azd">> >>,
      << <<"azd">>, <<"deploy">> >>,
      << <<"azd">>, <<"env">>, <<"set", "<key>", "<value>">> >> }

\* User input of one invocation: positional arguments and flag values.
ArgLists == {<<>>, <<"s3cret">>}
FlagValues == {"", "json"}

\* A stream set on the command (SetOut / SetIn), or "nil" when none was set.
CmdStreams == {"nil", "bytes.Buffer"}

\* The process environment for NO_COLOR: absent, or present with a value.
NoColorEnvs ==
    { [present |-> FALSE, value |-> ""],
      [present |-> TRUE, value |-> ""],
      [present |-> TRUE, value |-> "1"],
      [present |-> TRUE, value |-> "false"] }

\* The arguments Build can be given for buildOptions (nil or a struct).
BuildOptionsArgs ==
    { [isNil |-> TRUE, DisableCmdUsageEvent |-> FALSE],
      [isNil |-> FALSE, DisableCmdUsageEvent |-> FALSE],
      [isNil |-> FALSE, DisableCmdUsageEvent |-> TRUE] }

--------------------------------------------------------------------------
(* Pure helpers *)

\* os.Getenv: the value, or "" when the variable is absent.
Getenv(e) == IF e.present THEN e.value ELSE ""

\* cmd.OutOrStdout(): the stream set on the command, else os.Stdout.
OutOrStdout(c) == IF c.out = "nil" THEN "os.Stdout" ELSE c.out

\* cmd.InOrStdin(): the stream set on the command, else os.Stdin.
InOrStdin(c) == IF c.inp = "nil" THEN "os.Stdin" ELSE c.inp

\* colorable.NewNonColorable(w): the color-stripping wrap of w.
NewNonColorable(w) == <<"NonColorable">> \o w

\* colorable.NewColorableStdout(): the ANSI-to-native-color wrap of stdout.
NewColorableStdout == <<"Colorable", "os.Stdout">>

\* Build's defaulting of a nil buildOptions.
DefaultBuildOptions(o) ==
    IF o.isNil THEN [isNil |-> FALSE, DisableCmdUsageEvent |-> FALSE] ELSE o

\* fmt.Errorf("creating context: %w", err)
WrapAzdContextErr_Unwrapped(e) == e

WrapAzdContextErr(e) == <<"creating context: %w">> \o e

\* The writer of createRootContext: strip color when NO_COLOR is non-empty,
\* and wrap for native color when the writer is (still) os.Stdout itself.
SelectWriter_ChecksCmdStream(c, e) ==
    LET w0 == <<OutOrStdout(c)>>
        w1 == IF Getenv(e) # "" THEN NewNonColorable(w0) ELSE w0
    IN  IF OutOrStdout(c) = "os.Stdout" THEN NewColorableStdout ELSE w1

SelectWriter_ChecksPresence(c, e) ==
    LET w0 == <<OutOrStdout(c)>>
        w1 == IF e.present THEN NewNonColorable(w0) ELSE w0
    IN  IF w1 = <<"os.Stdout">> THEN NewColorableStdout ELSE w1

SelectWriter(c, e) ==
    LET w0 == <<OutOrStdout(c)>>
        w1 == IF Getenv(e) # "" THEN NewNonColorable(w0) ELSE w0
    IN  IF w1 = <<"os.Stdout">> THEN NewColorableStdout ELSE w1

\* The isTerminal flag handed to input.NewConsole.
IsTerminal_NoStdinCheck(c, t) ==
    /\ OutOrStdout(c) = "os.Stdout"
    /\ t.stdin
    /\ t.stdout

IsTerminal(c, t) ==
    /\ OutOrStdout(c) = "os.Stdout"
    /\ InOrStdin(c) = "os.Stdin"
    /\ t.stdin
    /\ t.stdout

\* cmd.CommandPath(): the names (first word of Use) from the root down,
\* joined by spaces; kept as the sequence of the names.
CommandPath(c) == [i \in 1..Len(c.uses) |-> Head(c.uses[i])]

\* events.GetCommandEventName: a fixed prefix in front of the path.
GetCommandEventName(path) == <<"cmd">> \o path

\* The name runCmdWithTelemetry gives its span.
SpanEventName_WithArgs(c) == GetCommandEventName(CommandPath(c) \o c.args)

SpanEventName(c) == GetCommandEventName(CommandPath(c))

--------------------------------------------------------------------------
(* State *)

VARIABLES
    cmd,          \* the cobra command: its Use chain, and this invocation's
                  \* arguments, flag values and streams
    buildOptions, \* the BuildOptions the run-handler closed over
    rootOptions,  \* the GlobalCommandOptions the run-handler closed over
    pc,           \* where the run-handler stands
    nInv,         \* invocations begun so far
    ctx,          \* the context createRootContext is assembling
    crcErr,       \* the error createRootContext returned
    err,          \* runCmdWithTelemetry's local err
    result,       \* what the run-handler returned
    failure,      \* which collaborator failed, and the error value it made
    noColor,      \* the NO_COLOR environment as os.Getenv saw it
    tty,          \* what isatty.IsTerminal says of the two descriptors
    calls,        \* the collaborator calls of this invocation, in order
    span,         \* the telemetry span of this invocation
    spanLog,      \* every span started in this behaviour, with its input
    runCtx        \* the keys of the context action.Run was given

vars ==
    << cmd, buildOptions, rootOptions, pc, nInv, ctx, crcErr, err, result,
       failure, noColor, tty, calls, span, spanLog, runCtx >>

EmptyCtx ==
    [ keys |-> {},
      formatter |-> "nil",
      writer |-> <<>>,
      console |-> [prompt |-> FALSE, isTerminal |-> FALSE] ]

NoSpan == [name |-> <<>>, status |-> "Unset", description |-> "", ended |-> FALSE]

NoFailure == [at |-> "", err |-> Nil]

UnsetNoColor == [present |-> FALSE, value |-> ""]

NoTTY == [stdin |-> FALSE, stdout |-> FALSE]

\* Build: the command keeps use, and the handler closes over the options.
Init ==
    /\ \E u \in CommandChains :
          cmd = [uses |-> u, args |-> <<>>, flags |-> "", out |-> "nil", inp |-> "nil"]
    /\ \E o \in BuildOptionsArgs : buildOptions = DefaultBuildOptions(o)
    /\ \E np \in BOOLEAN : rootOptions = [NoPrompt |-> np]
    /\ pc = "idle"
    /\ nInv = 0
    /\ ctx = EmptyCtx
    /\ crcErr = Nil
    /\ err = Nil
    /\ result = Nil
    /\ failure = NoFailure
    /\ noColor = UnsetNoColor
    /\ tty = NoTTY
    /\ calls = <<>>
    /\ span = NoSpan
    /\ spanLog = {}
    /\ runCtx = {}

--------------------------------------------------------------------------
(* The run-handler *)

\* cobra calls RunE with the parsed flags and arguments of one invocation.
Invoke ==
    /\ pc \in {"idle", "returned"}
    /\ nInv < MaxInvocations
    /\ \E a \in ArgLists, f \in FlagValues, o \in CmdStreams, i \in CmdStreams :
          cmd' = [cmd EXCEPT !.args = a, !.flags = f, !.out = o, !.inp = i]
    /\ nInv' = nInv + 1
    /\ pc' = "azdContext"
    /\ ctx' = EmptyCtx
    /\ crcErr' = Nil
    /\ err' = Nil
    /\ result' = Nil
    /\ failure' = NoFailure
    /\ noColor' = UnsetNoColor
    /\ tty' = NoTTY
    /\ calls' = <<>>
    /\ span' = NoSpan
    /\ runCtx' = {}
    /\ UNCHANGED <<buildOptions, rootOptions, spanLog>>

\* createRootContext, lines 118-129: the AzdContext, then the registrations
\* that cannot fail (options, installed-check cache, command runner).
NewAzdContext ==
    /\ pc = "azdContext"
    /\ calls' = Append(calls, "NewAzdContext")
    /\ \E e \in AzdContextErrs \cup {Nil} :
          IF e # Nil
          THEN /\ crcErr' = WrapAzdContextErr(e)
               /\ failure' = [at |-> "NewAzdContext", err |-> e]
               /\ pc' = "runE"
               /\ ctx' = ctx
          ELSE /\ ctx' = [ctx EXCEPT !.keys = @ \cup
                             {"azdContext", "commandOptions",
                              "installedCheckCache", "commandRunner"}]
               /\ pc' = "credential"
               /\ UNCHANGED <<crcErr, failure>>
    /\ UNCHANGED <<cmd, buildOptions, rootOptions, nInv, err, result, noColor,
                   tty, span, spanLog, runCtx>>

\* createRootContext, lines 137-146: the credential, or a panic; then AzCli.
NewAzureCLICredential_ReturnsErr ==
    /\ pc = "credential"
    /\ calls' = Append(calls, "NewAzureCLICredential")
    /\ \E e \in CredentialErrs \cup {Nil} :
          IF e # Nil
          THEN /\ crcErr' = e
               /\ failure' = [at |-> "NewAzureCLICredential", err |-> e]
               /\ pc' = "runE"
               /\ ctx' = ctx
          ELSE /\ ctx' = [ctx EXCEPT !.keys = @ \cup {"credentials", "azCli"}]
               /\ pc' = "formatter"
               /\ UNCHANGED <<crcErr, failure>>
    /\ UNCHANGED <<cmd, buildOptions, rootOptions, nInv, err, result, noColor,
                   tty, span, spanLog, runCtx>>

NewAzureCLICredential ==
    /\ pc = "credential"
    /\ calls' = Append(calls, "NewAzureCLICredential")
    /\ \E e \in CredentialErrs \cup {Nil} :
          IF e # Nil
          THEN /\ failure' = [at |-> "NewAzureCLICredential", err |-> e]
               /\ pc' = "panicked"
               /\ ctx' = ctx
          ELSE /\ ctx' = [ctx EXCEPT !.keys = @ \cup {"credentials", "azCli"}]
               /\ pc' = "formatter"
               /\ failure' = failure
    /\ UNCHANGED <<cmd, buildOptions, rootOptions, nInv, crcErr, err, result,
                   noColor, tty, span, spanLog, runCtx>>

\* createRootContext, lines 148-156: the formatter the flags ask for.
GetCommandFormatter ==
    /\ pc = "formatter"
    /\ calls' = Append(calls, "GetCommandFormatter")
    /\ \/ \E e \in FormatterErrs :
             /\ crcErr' = e
             /\ failure' = [at |-> "GetCommandFormatter", err |-> e]
             /\ pc' = "runE"
             /\ ctx' = ctx
       \/ \E f \in Formatters :
             /\ ctx' = [ctx EXCEPT
                           !.formatter = f,
                           !.keys = IF f # "nil" THEN @ \cup {"formatter"} ELSE @]
             /\ pc' = "writer"
             /\ UNCHANGED <<crcErr, failure>>
    /\ UNCHANGED <<cmd, buildOptions, rootOptions, nInv, err, result, noColor,
                   tty, span, spanLog, runCtx>>

\* createRootContext, lines 158-171: the writer.
AssembleWriter ==
    /\ pc = "writer"
    /\ calls' = Append(calls, "WithWriter")
    /\ \E e \in NoColorEnvs :
          /\ noColor' = e
          /\ ctx' = [ctx EXCEPT !.writer = SelectWriter(cmd, e),
                                !.keys = @ \cup {"writer"}]
    /\ pc' = "console"
    /\ UNCHANGED <<cmd, buildOptions, rootOptions, nInv, crcErr, err, result,
                   failure, tty, span, spanLog, runCtx>>

\* createRootContext, lines 173-183: the console; assembly succeeded.
AssembleConsole ==
    /\ pc = "console"
    /\ calls' = Append(calls, "NewConsole")
    /\ \E t \in [stdin : BOOLEAN, stdout : BOOLEAN] :
          /\ tty' = t
          /\ ctx' = [ctx EXCEPT
                        !.console = [prompt |-> ~rootOptions.NoPrompt,
                                     isTerminal |-> IsTerminal(cmd, t)],
                        !.keys = @ \cup {"console"}]
    /\ crcErr' = Nil
    /\ pc' = "runE"
    /\ UNCHANGED <<cmd, buildOptions, rootOptions, nInv, err, result, failure,
                   noColor, span, spanLog, runCtx>>

\* RunE, lines 73-86: return the assembly error, or pick the path.
RunE_IgnoresErr ==
    /\ pc = "runE"
    /\ pc' = IF buildOptions.DisableCmdUsageEvent THEN "runDirect" ELSE "spanStart"
    /\ UNCHANGED <<cmd, buildOptions, rootOptions, nInv, ctx, crcErr, err,
                   result, failure, noColor, tty, calls, span, spanLog, runCtx>>

RunE_AlwaysTelemetry ==
    /\ pc = "runE"
    /\ IF crcErr # Nil
       THEN /\ result' = crcErr
            /\ pc' = "returned"
       ELSE /\ result' = result
            /\ pc' = "spanStart"
    /\ UNCHANGED <<cmd, buildOptions, rootOptions, nInv, ctx, crcErr, err,
                   failure, noColor, tty, calls, span, spanLog, runCtx>>

RunE ==
    /\ pc = "runE"
    /\ IF crcErr # Nil
       THEN /\ result' = crcErr
            /\ pc' = "returned"
       ELSE /\ result' = result
            /\ pc' = IF buildOptions.DisableCmdUsageEvent
                     THEN "runDirect"
                     ELSE "spanStart"
    /\ UNCHANGED <<cmd, buildOptions, rootOptions, nInv, ctx, crcErr, err,
                   failure, noColor, tty, calls, span, spanLog, runCtx>>

\* RunE, line 83 with lines 78-80: the action, directly.
RunCmd_Direct ==
    /\ pc = "runDirect"
    /\ calls' = Append(calls, "action.Run")
    /\ runCtx' = ctx.keys
    /\ \E e \in ActionErrs \cup {Nil} :
          /\ result' = e
          /\ failure' = IF e # Nil THEN [at |-> "action.Run", err |-> e] ELSE failure
    /\ pc' = "returned"
    /\ UNCHANGED <<cmd, buildOptions, rootOptions, nInv, ctx, crcErr, err,
                   noColor, tty, span, spanLog>>

\* runCmdWithTelemetry, lines 100-101: start the span, defer its end.
StartSpan ==
    /\ pc = "spanStart"
    /\ calls' = Append(calls, "span.Start")
    /\ span' = [NoSpan EXCEPT !.name = SpanEventName(cmd)]
    /\ spanLog' = spanLog \cup
          {[args |-> cmd.args, flags |-> cmd.flags, name |-> SpanEventName(cmd)]}
    /\ pc' = "runTelemetry"
    /\ UNCHANGED <<cmd, buildOptions, rootOptions, nInv, ctx, crcErr, err,
                   result, failure, noColor, tty, runCtx>>

\* runCmdWithTelemetry, line 103 with lines 78-80: the action, in the span.
RunCmd_Telemetry ==
    /\ pc = "runTelemetry"
    /\ calls' = Append(calls, "action.Run")
    /\ runCtx' = ctx.keys \cup {"span"}
    /\ \E e \in ActionErrs \cup {Nil} :
          /\ err' = e
          /\ failure' = IF e # Nil THEN [at |-> "action.Run", err |-> e] ELSE failure
          /\ pc' = IF e # Nil THEN "setStatus" ELSE "telemetryReturn"
    /\ UNCHANGED <<cmd, buildOptions, rootOptions, nInv, ctx, crcErr, result,
                   noColor, tty, span, spanLog>>

\* runCmdWithTelemetry, lines 104-106.
SetStatus ==
    /\ pc = "setStatus"
    /\ calls' = Append(calls, "span.SetStatus")
    /\ span' = [span EXCEPT !.status = "Error", !.description = "UnknownError"]
    /\ pc' = "telemetryReturn"
    /\ UNCHANGED <<cmd, buildOptions, rootOptions, nInv, ctx, crcErr, err,
                   result, failure, noColor, tty, spanLog, runCtx>>

\* runCmdWithTelemetry, line 108 and the deferred span.End() of line 101.
TelemetryReturn_EndOnSuccessOnly ==
    /\ pc = "telemetryReturn"
    /\ result' = err
    /\ IF err = Nil
       THEN /\ calls' = Append(calls, "span.End")
            /\ span' = [span EXCEPT !.ended = TRUE]
       ELSE UNCHANGED <<calls, span>>
    /\ pc' = "returned"
    /\ UNCHANGED <<cmd, buildOptions, rootOptions, nInv, ctx, crcErr, err,
                   failure, noColor, tty, spanLog, runCtx>>

TelemetryReturn_DropsErr ==
    /\ pc = "telemetryReturn"
    /\ result' = Nil
    /\ calls' = Append(calls, "span.End")
    /\ span' = [span EXCEPT !.ended = TRUE]
    /\ pc' = "returned"
    /\ UNCHANGED <<cmd, buildOptions, rootOptions, nInv, ctx, crcErr, err,
                   failure, noColor, tty, spanLog, runCtx>>

TelemetryReturn ==
    /\ pc = "telemetryReturn"
    /\ result' = err
    /\ calls' = Append(calls, "span.End")
    /\ span' = [span EXCEPT !.ended = TRUE]
    /\ pc' = "returned"
    /\ UNCHANGED <<cmd, buildOptions, rootOptions, nInv, ctx, crcErr, err,
                   failure, noColor, tty, spanLog, runCtx>>

Next ==
    \/ Invoke
    \/ NewAzdContext
    \/ NewAzureCLICredential
    \/ GetCommandFormatter
    \/ AssembleWriter
    \/ AssembleConsole
    \/ RunE
    \/ RunCmd_Direct
    \/ StartSpan
    \/ RunCmd_Telemetry
    \/ SetStatus
    \/ TelemetryReturn

Spec == Init /\ [][Next]_vars

--------------------------------------------------------------------------
(* Reading the log of calls *)

Count(op) == Cardinality({i \in DOMAIN calls : calls[i] = op})

Called(op) == \E i \in DOMAIN calls : calls[i] = op

IsSpanOrAction(op) ==
    op \in {"span.Start", "action.Run", "span.SetStatus", "span.End"}

AssemblyFailed == failure.at \in {"NewAzdContext", "GetCommandFormatter"}

AssemblySucceeded == "console" \in ctx.keys

Disabled == buildOptions.DisableCmdUsageEvent

\* Everything createRootContext registers on every successful assembly.
RequiredKeys ==
    {"azdContext", "commandOptions", "installedCheckCache", "commandRunner",
     "credentials", "azCli", "writer", "console"}

--------------------------------------------------------------------------
(* Properties *)

\* C1: when context assembly fails (AzdContext creation or formatter
\* resolution), action.Run is never called in that invocation and the
\* run-handler returns a non-nil error.
C1_AssemblyErrorAborts ==
    AssemblyFailed =>
        /\ ~Called("action.Run")
        /\ ~Called("span.Start")
        /\ pc \in {"runE", "returned"}
        /\ (pc = "returned" => result # Nil)

C1_Witness ==
    /\ pc = "returned"
    /\ failure.at = "GetCommandFormatter"
    /\ result # Nil
    /\ ~Called("action.Run")

\* C2: after a successful assembly the run-handler returns exactly what
\* action.Run returned (the same error value, or nil), on the direct path
\* and on the telemetry path alike.
C2_ActionResultUnchanged ==
    (pc = "returned" /\ Called("action.Run")) =>
        result = (IF failure.at = "action.Run" THEN failure.err ELSE Nil)

C2_Witness ==
    /\ pc = "returned"
    /\ ~Disabled
    /\ failure.at = "action.Run"
    /\ result = failure.err
    /\ result \in ActionErrs

\* C3: with usage events enabled and a successful assembly, the invocation
\* starts one span, then runs the action once, then (only when the action
\* failed) sets the status to Error/"UnknownError", then ends the span.
C3_SpanBracketsAction ==
    (pc = "returned" /\ ~Disabled /\ AssemblySucceeded) =>
        /\ SelectSeq(calls, IsSpanOrAction) =
              (IF failure.at = "action.Run"
               THEN <<"span.Start", "action.Run", "span.SetStatus", "span.End">>
               ELSE <<"span.Start", "action.Run", "span.End">>)
        /\ span.ended
        /\ (span.status = "Error") <=> (failure.at = "action.Run")
        /\ (span.status = "Error") => span.description = "UnknownError"

C3_Witness ==
    /\ pc = "returned"
    /\ ~Disabled
    /\ AssemblySucceeded
    /\ failure.at = "action.Run"
    /\ span.status = "Error"
    /\ span.ended

\* C4: with DisableCmdUsageEvent set no span is ever started, whatever
\* fails or succeeds, and after a successful assembly the action is run
\* once, directly, with the assembled context.
C4_NoSpanWhenDisabled ==
    Disabled =>
        /\ ~Called("span.Start")
        /\ span = NoSpan
        /\ spanLog = {}
        /\ (pc = "returned" /\ AssemblySucceeded) =>
              /\ Count("action.Run") = 1
              /\ runCtx = ctx.keys
              /\ RequiredKeys \subseteq runCtx

C4_Witness ==
    /\ Disabled
    /\ pc = "returned"
    /\ AssemblySucceeded
    /\ Called("action.Run")
    /\ nInv = 2

\* C5: a non-empty NO_COLOR gives the color-stripping wrap of the command's
\* output stream, also when that stream is the process stdout; an unset
\* NO_COLOR with the process stdout gives the native-color wrap; no writer
\* carries both wraps.
C5_WriterSelection ==
    "writer" \in ctx.keys =>
        /\ (noColor.present /\ noColor.value # "") =>
              ctx.writer = <<"NonColorable", OutOrStdout(cmd)>>
        /\ (~noColor.present /\ OutOrStdout(cmd) = "os.Stdout") =>
              ctx.writer = <<"Colorable", "os.Stdout">>
        /\ ~(/\ \E i \in DOMAIN ctx.writer : ctx.writer[i] = "NonColorable"
             /\ \E i \in DOMAIN ctx.writer : ctx.writer[i] = "Colorable")

C5_Witness ==
    /\ "writer" \in ctx.keys
    /\ noColor.present
    /\ noColor.value = "1"
    /\ cmd.out = "nil"
    /\ ctx.writer = <<"NonColorable", "os.Stdout">>

\* C6 as claimed: whenever NO_COLOR is present in the environment, whatever
\* its value, the writer is the color-stripping wrap and not the
\* native-color wrap.
C6_Original ==
    ("writer" \in ctx.keys /\ noColor.present) =>
        /\ Head(ctx.writer) = "NonColorable"
        /\ Head(ctx.writer) # "Colorable"

\* C6 as amended: whenever NO_COLOR is present with a non-empty value the
\* writer is the color-stripping wrap and not the native-color wrap; a
\* NO_COLOR that is present but empty strips nothing, as if it were unset.
C6_NonEmptyNoColorStrips ==
    "writer" \in ctx.keys =>
        /\ (noColor.present /\ noColor.value # "") =>
              /\ Head(ctx.writer) = "NonColorable"
              /\ Head(ctx.writer) # "Colorable"
        /\ (noColor.present /\ noColor.value = "") =>
              /\ Head(ctx.writer) # "NonColorable"
              /\ cmd.out = "nil" => Head(ctx.writer) = "Colorable"

C6_Witness ==
    /\ "writer" \in ctx.keys
    /\ noColor.present
    /\ noColor.value = "false"
    /\ Head(ctx.writer) = "NonColorable"

\* C7 as claimed: every ordinary error that ends an invocation (AzdContext
\* failure, formatter error, action error) is returned as the very error
\* value the failing collaborator produced.
C7_Original ==
    (pc = "returned" /\ failure.at # "") => result = failure.err

\* C7 as amended: a formatter error and an action error are returned as the
\* very error value the collaborator produced; an AzdContext failure is
\* returned wrapped, "creating context: %w" around the collaborator's error.
C7_ErrorsUnchangedButAzdContextWrapped ==
    pc = "returned" =>
        /\ failure.at \in {"GetCommandFormatter", "action.Run"} =>
              result = failure.err
        /\ failure.at = "NewAzdContext" =>
              /\ result = <<"creating context: %w">> \o failure.err
              /\ result # failure.err
              /\ failure.err \in AzdContextErrs

C7_Witness ==
    /\ pc = "returned"
    /\ failure.at = "NewAzdContext"
    /\ result = <<"creating context: %w", "no project exists">>

\* C8: a credential construction failure ends in a panic: nothing is
\* returned, no later assembler runs, no span is started and the action is
\* not run; only that failure panics, every other assembly failure is
\* returned as an error.
C8_CredentialFailurePanics ==
    /\ failure.at = "NewAzureCLICredential" =>
          /\ pc = "panicked"
          /\ result = Nil
          /\ crcErr = Nil
          /\ calls = <<"NewAzdContext", "NewAzureCLICredential">>
          /\ ctx.keys \cap {"credentials", "azCli", "formatter", "writer", "console"} = {}
          /\ span = NoSpan
          /\ runCtx = {}
    /\ pc = "panicked" => failure.at = "NewAzureCLICredential"
    /\ AssemblyFailed =>
          /\ pc \in {"runE", "returned"}
          /\ crcErr # Nil
          /\ (pc = "returned" => result = crcErr)

C8_Witness ==
    /\ pc = "panicked"
    /\ failure.err \in CredentialErrs
    /\ nInv = 2

\* C9: the console is interactive exactly when the output stream is the
\* process stdout, the input stream is the process stdin, and both
\* descriptors are terminals.
C9_InteractiveIffAllFour ==
    "console" \in ctx.keys =>
        (ctx.console.isTerminal <=>
            /\ cmd.out = "nil"
            /\ cmd.inp = "nil"
            /\ tty.stdin
            /\ tty.stdout)

C9_Witness ==
    /\ "console" \in ctx.keys
    /\ ctx.console.isTerminal
    /\ cmd.out = "nil"
    /\ cmd.inp = "nil"
    /\ tty.stdin
    /\ tty.stdout

\* C10: all spans started by invocations of the same command carry the same
\* event name, whatever the positional arguments and flag values were, and
\* that name is made of the command path alone.
C10_SpanNameIgnoresInput ==
    \A a \in spanLog :
        /\ \A b \in spanLog : a.name = b.name
        /\ Len(a.name) = 1 + Len(cmd.uses)
        /\ \A i \in DOMAIN a.name : a.name[i] \notin {"s3cret", "json"}

C10_Witness ==
    \E a \in spanLog, b \in spanLog :
        /\ a.args # b.args
        /\ a.flags # b.flags
        /\ a.name = b.name

====
